---- MODULE Spec2Model ----
(***************************************************************************)
(* text2epub: the rule engine, the range computer, the hierarchy builder,  *)
(* the export assembler (app/core) and the editing session that drives     *)
(* them (app/controller.py).                                               *)
(*                                                                         *)
(* Text is a sequence of one-character strings.  The line alphabet is      *)
(*   "V"  a volume heading token      "C"  a chapter heading token         *)
(*   "x", "y"  ordinary text          " "  white space                     *)
(* A rule line is a sequence of tokens: the line alphabet plus             *)
(*   "^"   start anchor (first token of a pattern)                         *)
(*   "*"   the rest of the line, as group 1 (last token of a pattern)      *)
(*   "("   an unclosed group: re.compile raises re.error                   *)
(*   "=>"  the separator between pattern and title template                *)
(*   "\\0" the whole-match backreference \g<0> of a template               *)
(*   "\\1" the backreference \1 to group 1                                 *)
(***************************************************************************)
EXTENDS Integers, Sequences, FiniteSets, TLC

\* ------------------------------------------------------------------ bounds
\* Longest item list handed to the pure functions.
MaxItems == 3
\* The cap on the session's collection (insert is disabled at the cap).
MaxToc == 2
\* Greatest line index of an item handed to the pure functions.
MaxLine == 2
\* Deepest level number of an item handed to the pure functions, and the
\* most levels a rule set has.
MaxLevel == 2
\* The operations a round trip remembers.
MaxHist == 3
\* Longest line handed to the rule engine.
MaxLineLen == 2
\* The short max_len handed to check_line_for_toc beside its default.
ShortMaxLen == 1
\* Load workers in flight together in the editing session.
MaxInflight == 1
\* Load workers in flight together when only files are opened.
MaxLoads == 2

\* ------------------------------------------------------------------ text
Min(a, b) == IF a <= b THEN a ELSE b
Max(a, b) == IF a >= b THEN a ELSE b

IsSpace(c) == c = " "

RECURSIVE LStrip(_)
LStrip(s) == IF s # <<>> /\ IsSpace(Head(s)) THEN LStrip(Tail(s)) ELSE s

RECURSIVE RStrip(_)
RStrip(s) ==
    IF s # <<>> /\ IsSpace(s[Len(s)]) THEN RStrip(SubSeq(s, 1, Len(s) - 1)) ELSE s

\* str.strip()
Strip(s) == RStrip(LStrip(s))

\* app/core/utils.py
is_blank(line) == Strip(line) = <<>>

normalize_title(title, fallback) ==
    LET value == Strip(title) IN IF value # <<>> THEN value ELSE fallback

Digits == <<"0", "1", "2", "3", "4", "5", "6", "7", "8", "9">>

\* str(n) for n >= 0
RECURSIVE ToStr(_)
ToStr(n) == IF n < 10 THEN <<Digits[n + 1]>> ELSE ToStr(n \div 10) \o <<Digits[(n % 10) + 1]>>

\* ------------------------------------------------------------ rule engine
\* Index of the first "=>" token of a rule line, 0 when there is none.
ArrowPos(text) ==
    IF \E i \in 1..Len(text) : text[i] = "=>"
    THEN CHOOSE i \in 1..Len(text) :
            text[i] = "=>" /\ \A k \in 1..(i - 1) : text[k] # "=>"
    ELSE 0

\* _split_rule_line: [ok, pattern, replacement]; ok = FALSE is the ValueError
\* raised for a blank rule line.
_split_rule_line(rule_line) ==
    LET text == Strip(rule_line)
        p == ArrowPos(text)
    IN  IF text = <<>> THEN [ok |-> FALSE, pattern |-> <<>>, replacement |-> <<>>]
        ELSE IF p > 0
             THEN [ok |-> TRUE,
                   pattern |-> Strip(SubSeq(text, 1, p - 1)),
                   replacement |-> Strip(SubSeq(text, p + 1, Len(text)))]
             ELSE [ok |-> TRUE, pattern |-> text, replacement |-> <<"\\0">>]

_normalize_replacement(value) == IF value = <<>> THEN <<"\\0">> ELSE value

\* re.compile on the modelled fragment: an unclosed "(" is re.error.
PatternCompiles(pattern) == \A i \in 1..Len(pattern) : pattern[i] # "("

\* The compiled matcher: anchored at the start, the literal run, the tail
\* that takes the rest of the line as group 1.
Regex(pattern) ==
    LET anchored == pattern # <<>> /\ Head(pattern) = "^"
        p1 == IF anchored THEN Tail(pattern) ELSE pattern
        rest == p1 # <<>> /\ p1[Len(p1)] = "*"
        lits == IF rest THEN SubSeq(p1, 1, Len(p1) - 1) ELSE p1
    IN  [anchored |-> anchored, lits |-> lits, rest |-> rest]

\* _compile_rule: [ok, regex, replacement, raw_rule]; ok = FALSE when
\* _split_rule_line or re.compile raises.
_compile_rule(rule_line) ==
    LET sp == _split_rule_line(rule_line)
    IN  [ok |-> sp.ok /\ PatternCompiles(sp.pattern),
         regex |-> Regex(sp.pattern),
         replacement |-> _normalize_replacement(sp.replacement),
         raw_rule |-> rule_line]

MatchesAt(rx, text, p) ==
    /\ p + Len(rx.lits) - 1 <= Len(text)
    /\ \A k \in 1..Len(rx.lits) : text[p + k - 1] = rx.lits[k]

\* regex.search(text): the leftmost match, [found, from, to] (to < from is the
\* empty match).
Search(rx, text) ==
    LET starts == IF rx.anchored THEN {1} ELSE 1..(Len(text) + 1)
        hits == {p \in starts : MatchesAt(rx, text, p)}
    IN  IF hits = {} THEN [found |-> FALSE, from |-> 0, to |-> 0]
        ELSE LET p == CHOOSE q \in hits : \A r \in hits : q <= r
             IN  [found |-> TRUE, from |-> p,
                  to |-> IF rx.rest THEN Len(text) ELSE p + Len(rx.lits) - 1]

\* match.group(0)
Matched(text, m) == SubSeq(text, m.from, m.to)

\* match.group(1): what the tail took.  Only a pattern with that tail
\* has the group; a template with "\\1" is used with such patterns only.
Group1(rx, text, m) ==
    IF rx.rest THEN SubSeq(text, m.from + Len(rx.lits), Len(text)) ELSE <<>>

\* match.expand(template), whole and group1 being groups 0 and 1
RECURSIVE Expand(_, _, _)
Expand(template, whole, group1) ==
    IF template = <<>> THEN <<>>
    ELSE (IF Head(template) = "\\0" THEN whole
          ELSE IF Head(template) = "\\1" THEN group1
          ELSE <<Head(template)>>)
         \o Expand(Tail(template), whole, group1)

\* A rendering that falls back to the matched part of the line.
RenderedTitleOfMatch(rule, text, match) ==
    normalize_title(Strip(Expand(rule.replacement, Matched(text, match),
                                 Group1(rule.regex, text, match))),
                    Matched(text, match))

\* rendered: the stripped expansion, or the trimmed line when it is blank.
RenderedTitle(rule, text, match) ==
    normalize_title(Strip(Expand(rule.replacement, Matched(text, match),
                                 Group1(rule.regex, text, match))),
                    text)

\* compile_rule_levels: levels whose rule lines are all blank are skipped and
\* the others keep their 1-based position as level_no.  Called only with rule
\* lines that compile (see CompilesAll).
RECURSIVE NonBlankRules(_)
NonBlankRules(rules) ==
    IF rules = <<>> THEN <<>>
    ELSE IF Strip(Head(rules)) = <<>> THEN NonBlankRules(Tail(rules))
         ELSE <<_compile_rule(Strip(Head(rules)))>> \o NonBlankRules(Tail(rules))

RECURSIVE CompileFrom(_, _)
CompileFrom(rule_levels, index) ==
    IF index > Len(rule_levels) THEN <<>>
    ELSE LET level == rule_levels[index]
             rules == NonBlankRules(level.rules)
         IN  (IF rules # <<>>
              THEN <<[level_no |-> index,
                      level_name |-> normalize_title(level.name, <<"L">> \o ToStr(index)),
                      rules |-> rules]>>
              ELSE <<>>)
             \o CompileFrom(rule_levels, index + 1)

compile_rule_levels(rule_levels) == CompileFrom(rule_levels, 1)

\* Whether compile_rule_levels returns instead of raising.
CompilesAll(rule_levels) ==
    \A i \in 1..Len(rule_levels) :
        LET rs == NonBlankRules(rule_levels[i].rules)
        IN  \A k \in 1..Len(rs) : rs[k].ok

NoMatch == [found |-> FALSE, level_no |-> 0, level_name |-> <<>>, rule |-> 0,
            matched_text |-> <<>>, rendered_title |-> <<>>]

\* detect_heading_level: the double loop, from level i and rule j on.  rule is
\* the rule's position inside its level.
RECURSIVE DetectFrom(_, _, _, _)
DetectFrom(text, compiled_levels, i, j) ==
    IF i > Len(compiled_levels) THEN NoMatch
    ELSE IF j > Len(compiled_levels[i].rules) THEN DetectFrom(text, compiled_levels, i + 1, 1)
    ELSE LET level == compiled_levels[i]
             rule == level.rules[j]
             match == Search(rule.regex, text)
         IN  IF ~match.found THEN DetectFrom(text, compiled_levels, i, j + 1)
             ELSE [found |-> TRUE,
                   level_no |-> level.level_no,
                   level_name |-> level.level_name,
                   rule |-> j,
                   matched_text |-> text,
                   rendered_title |-> RenderedTitle(rule, text, match)]

\* A detector that walks the levels finest first.
detect_heading_level_finest_first(line, compiled_levels) ==
    LET text == Strip(line)
        n == Len(compiled_levels)
    IN  IF text = <<>> THEN NoMatch
        ELSE DetectFrom(text, [k \in 1..n |-> compiled_levels[n + 1 - k]], 1, 1)

detect_heading_level(line, compiled_levels) ==
    LET text == Strip(line)
    IN  IF text = <<>> THEN NoMatch ELSE DetectFrom(text, compiled_levels, 1, 1)

\* A check that also rejects a line of exactly max_len characters.
check_line_for_toc_shorter(line, compiled_levels, max_len) ==
    LET text == Strip(line)
    IN  IF text = <<>> THEN [matched |-> NoMatch, accepted |-> FALSE, reason |-> "blank"]
        ELSE IF Len(text) >= max_len
             THEN [matched |-> NoMatch, accepted |-> FALSE, reason |-> "too long"]
        ELSE LET matched == detect_heading_level(text, compiled_levels)
             IN  IF ~matched.found
                 THEN [matched |-> NoMatch, accepted |-> FALSE, reason |-> "no rule matched"]
                 ELSE [matched |-> matched, accepted |-> TRUE, reason |-> "rule matched"]

\* check_line_for_toc: [matched, accepted, reason]
check_line_for_toc(line, compiled_levels, max_len) ==
    LET text == Strip(line)
    IN  IF text = <<>> THEN [matched |-> NoMatch, accepted |-> FALSE, reason |-> "blank"]
        ELSE IF Len(text) > max_len
             THEN [matched |-> NoMatch, accepted |-> FALSE, reason |-> "too long"]
        ELSE LET matched == detect_heading_level(text, compiled_levels)
             IN  IF ~matched.found
                 THEN [matched |-> NoMatch, accepted |-> FALSE, reason |-> "no rule matched"]
                 ELSE [matched |-> matched, accepted |-> TRUE, reason |-> "rule matched"]

\* The max_len default of check_line_for_toc.
DefaultMaxLen == 180

\* ---------------------------------------------------------- range computer
\* models.TocItem
TocItem(title, start_line, end_line, level, level_name) ==
    [title |-> title, start_line |-> start_line, end_line |-> end_line,
     level |-> level, level_name |-> level_name]

\* The sort key (start_line, level) of sorted(items, key=...).
KeyLE(a, b) ==
    \/ a.start_line < b.start_line
    \/ a.start_line = b.start_line /\ a.level <= b.level

RECURSIVE SortedInsert(_, _)
SortedInsert(s, it) ==
    IF s = <<>> THEN <<it>>
    ELSE IF KeyLE(Head(s), it) THEN <<Head(s)>> \o SortedInsert(Tail(s), it)
         ELSE <<it>> \o s

\* sorted(items, key=lambda item: (item.start_line, item.level)): stable.
RECURSIVE SortItems(_)
SortItems(items) ==
    IF items = <<>> THEN <<>>
    ELSE SortedInsert(SortItems(SubSeq(items, 1, Len(items) - 1)), items[Len(items)])

\* _next_greater_start: -1 stands for None.
_next_greater_start(items, start_line) ==
    LET greater == {items[i].start_line : i \in {k \in 1..Len(items) : items[k].start_line > start_line}}
    IN  IF greater = {} THEN -1
        ELSE CHOOSE g \in greater : \A h \in greater : g <= h

\* The same without the clamp to start_line.
RangeEndUnclamped(sorted_items, item, total_lines) ==
    LET nxt == _next_greater_start(sorted_items, item.start_line)
    IN  IF nxt # -1 THEN nxt - 1 ELSE total_lines - 1

\* A per-level sweep: only items of the same level truncate.
RangeEndPerLevel(sorted_items, item, total_lines) ==
    LET same == SelectSeq(sorted_items, LAMBDA o : o.level = item.level)
        nxt == _next_greater_start(same, item.start_line)
        e == IF nxt # -1 THEN nxt - 1 ELSE total_lines - 1
    IN  IF e < item.start_line THEN item.start_line ELSE e

\* The end_line recompute_ranges gives one item of sorted_items.
RangeEnd(sorted_items, item, total_lines) ==
    LET nxt == _next_greater_start(sorted_items, item.start_line)
        e == IF nxt # -1 THEN nxt - 1 ELSE total_lines - 1
    IN  IF e < item.start_line THEN item.start_line ELSE e

\* Ranges given in the order received, without the sort.
recompute_ranges_unsorted(items, total_lines) ==
    [i \in 1..Len(items) |->
        [items[i] EXCEPT !.end_line = RangeEnd(items, items[i], total_lines)]]

recompute_ranges(items, total_lines) ==
    IF items = <<>> THEN <<>>
    ELSE LET sorted_items == SortItems(items)
         IN  [i \in 1..Len(sorted_items) |->
                 [sorted_items[i] EXCEPT !.end_line = RangeEnd(sorted_items, sorted_items[i], total_lines)]]

\* ------------------------------------------------------------ parse_toc_items
BodyTitle == <<"b", "o", "d", "y">>
SectionName == <<"s", "e", "c">>

\* The loop of parse_toc_items over the lines from index idx (0-based) on.
RECURSIVE DetectedFrom(_, _, _)
DetectedFrom(lines, compiled_levels, idx) ==
    IF idx >= Len(lines) THEN <<>>
    ELSE LET checked == check_line_for_toc(lines[idx + 1], compiled_levels, DefaultMaxLen)
         IN  (IF ~checked.accepted \/ ~checked.matched.found THEN <<>>
              ELSE <<TocItem(checked.matched.rendered_title, idx, idx,
                             checked.matched.level_no, checked.matched.level_name)>>)
             \o DetectedFrom(lines, compiled_levels, idx + 1)

\* default_rule_levels, on the modelled alphabet: level 1 takes the lines that
\* start with a volume token, level 2 those that start with a chapter token;
\* both render the whole line.
default_rule_levels ==
    <<[name |-> <<"v">>, rules |-> <<<<"^", "V", "*", " ", "=>", " ", "\\0">>>>],
      [name |-> <<"c">>, rules |-> <<<<"^", "C", "*", " ", "=>", " ", "\\0">>>>]>>

parse_toc_items(lines, rule_levels) ==
    IF lines = <<>> THEN <<>>
    ELSE LET levels == IF rule_levels # <<>> THEN rule_levels ELSE default_rule_levels
             compiled_levels == compile_rule_levels(levels)
             detected == DetectedFrom(lines, compiled_levels, 0)
         IN  IF compiled_levels = <<>>
             THEN <<TocItem(BodyTitle, 0, Len(lines) - 1, 1, SectionName)>>
             ELSE IF detected = <<>>
             THEN LET deepest == compiled_levels[Len(compiled_levels)]
                  IN  <<TocItem(BodyTitle, 0, Len(lines) - 1, deepest.level_no, deepest.level_name)>>
             ELSE recompute_ranges(detected, Len(lines))

\* -------------------------------------------------------- hierarchy builder
\* The forest as an arena over the sorted items: node k wraps order[k], roots
\* and children[k] list node numbers in the order they were appended.
\* A pop that keeps equal levels on the stack.
RECURSIVE PopWhileGT(_, _, _)
PopWhileGT(stack, order, level) ==
    IF stack # <<>> /\ order[stack[Len(stack)]].level > level
    THEN PopWhileGT(SubSeq(stack, 1, Len(stack) - 1), order, level)
    ELSE stack

\* while stack and stack[-1]["item"].level >= item.level: stack.pop()
RECURSIVE PopWhileGE(_, _, _)
PopWhileGE(stack, order, level) ==
    IF stack # <<>> /\ order[stack[Len(stack)]].level >= level
    THEN PopWhileGE(SubSeq(stack, 1, Len(stack) - 1), order, level)
    ELSE stack

\* One iteration of the loop of _build_hierarchy, for node k.
HierarchyStep(st, order, k) ==
    LET stack == PopWhileGE(st.stack, order, order[k].level)
    IN  IF stack # <<>>
        THEN [roots |-> st.roots,
              children |-> [st.children EXCEPT ![stack[Len(stack)]] = Append(@, k)],
              stack |-> Append(stack, k)]
        ELSE [roots |-> Append(st.roots, k),
              children |-> st.children,
              stack |-> Append(stack, k)]

RECURSIVE HierarchyLoop(_, _, _)
HierarchyLoop(st, order, k) ==
    IF k > Len(order) THEN st
    ELSE HierarchyLoop(HierarchyStep(st, order, k), order, k + 1)

_build_hierarchy(items) ==
    LET order == SortItems(items)
        st == HierarchyLoop([roots |-> <<>>, children |-> [n \in 1..Len(order) |-> <<>>],
                             stack |-> <<>>], order, 1)
    IN  [order |-> order, roots |-> st.roots, children |-> st.children]

\* ------------------------------------------------------------------ TOC tree
\* The tree widget filled by _refresh_toc_tree, as the parent of each flat
\* index (0 for a top-level node). The stack holds (level, node) pairs.
\* A pop that leaves an equal level on the stack.
RECURSIVE TreePopWhileGT(_, _)
TreePopWhileGT(stack, level) ==
    IF stack # <<>> /\ stack[Len(stack)][1] > level
    THEN TreePopWhileGT(SubSeq(stack, 1, Len(stack) - 1), level)
    ELSE stack

\* while stack and stack[-1][0] >= item.level: stack.pop()
RECURSIVE TreePopWhile(_, _)
TreePopWhile(stack, level) ==
    IF stack # <<>> /\ stack[Len(stack)][1] >= level
    THEN TreePopWhile(SubSeq(stack, 1, Len(stack) - 1), level)
    ELSE stack

\* The loop over enumerate(self.toc_items), from flat index idx on.
RECURSIVE TreeLoop(_, _, _, _)
TreeLoop(items, idx, stack, parent) ==
    IF idx > Len(items) THEN parent
    ELSE LET popped == TreePopWhile(stack, items[idx].level)
             above == IF popped # <<>> THEN popped[Len(popped)][2] ELSE 0
         IN  TreeLoop(items, idx + 1, Append(popped, <<items[idx].level, idx>>),
                      Append(parent, above))

_refresh_toc_tree(items) == TreeLoop(items, 1, <<>>, <<>>)

\* ---------------------------------------------------------- export assembler
\* utils.html_escape (html.escape with quote=False)
RECURSIVE html_escape(_)
html_escape(text) ==
    IF text = <<>> THEN <<>>
    ELSE (CASE Head(text) = "&" -> <<"&", "a", "m", "p", ";">>
            [] Head(text) = "<" -> <<"&", "l", "t", ";">>
            [] Head(text) = ">" -> <<"&", "g", "t", ";">>
            [] OTHER -> <<Head(text)>>)
         \o html_escape(Tail(text))

\* lines[a : b + 1]
Slice(lines, a, b) == SubSeq(lines, a + 1, Min(b + 1, Len(lines)))

RECURSIVE Paragraphs(_)
Paragraphs(content_lines) ==
    IF content_lines = <<>> THEN <<>>
    ELSE (IF Strip(Head(content_lines)) # <<>>
          THEN <<html_escape(Strip(Head(content_lines)))>> ELSE <<>>)
         \o Paragraphs(Tail(content_lines))

\* _chapter_html: the heading and the paragraphs (one empty paragraph when the
\* slice holds no text).
_chapter_html(item, lines) ==
    LET paragraphs == Paragraphs(Slice(lines, item.start_line, item.end_line))
    IN  [h1 |-> html_escape(item.title),
         body |-> IF paragraphs # <<>> THEN paragraphs ELSE <<<<>>>>]

\* The doc_map key of an item.
DocKey(item) == <<item.start_line, item.level, item.title>>

\* The item list build_epub works on.
EffectiveItems(lines, toc_items) ==
    IF toc_items = <<>>
    THEN <<TocItem(BodyTitle, 0, Len(lines) - 1, 1, SectionName)>>
    ELSE toc_items

\* The shallowest level instead of the deepest.
ContentLevelMin(items) ==
    CHOOSE l \in {items[i].level : i \in 1..Len(items)} :
        \A i \in 1..Len(items) : l <= items[i].level

\* The chapter level of models.TocItem ("1=volume, 2=chapter"), whatever the items.
ContentLevelChapter(items) == 2

\* content_level = max(item.level for item in toc_items)
ContentLevel(items) ==
    CHOOSE l \in {items[i].level : i \in 1..Len(items)} :
        \A i \in 1..Len(items) : l >= items[i].level

\* chapter_docs: one document per content item, numbered from 1 (its file
\* chapters/chapter_<idx>.xhtml).
ChapterDocs(content_items, lines) ==
    [i \in 1..Len(content_items) |->
        [idx |-> i, title |-> content_items[i].title,
         content |-> _chapter_html(content_items[i], lines)]]

\* doc_map[key]: the dict keeps the last document stored under a key.
DocMapHas(ctx, key) == \E i \in 1..Len(ctx.content_items) : DocKey(ctx.content_items[i]) = key

DocMapGet(ctx, key) ==
    LET hits == {i \in 1..Len(ctx.content_items) : DocKey(ctx.content_items[i]) = key}
    IN  ctx.chapter_docs[CHOOSE i \in hits : \A k \in hits : i >= k]

\* An entry of the export tree: a content document or a section.
DocEntry(doc) == [kind |-> "doc", title |-> doc.title, idx |-> doc.idx, children |-> <<>>]
SectionEntry(title, children) == [kind |-> "section", title |-> title, idx |-> 0, children |-> children]

\* A section is emitted even when nothing is below it.
SectionOfKeepEmpty(item, child_entries) == <<SectionEntry(item.title, child_entries)>>

\* What a node above the content level contributes, given its children's entries.
SectionOf(item, child_entries) ==
    IF child_entries = <<>> THEN <<>>
    ELSE <<SectionEntry(item.title, child_entries)>>

RECURSIVE to_toc_entries(_, _)
RECURSIVE ChildEntries(_, _, _)
to_toc_entries(ctx, n) ==
    LET item == ctx.hierarchy.order[n]
        key == DocKey(item)
    IN  IF item.level = ctx.content_level /\ DocMapHas(ctx, key)
        THEN <<DocEntry(DocMapGet(ctx, key))>>
        ELSE SectionOf(item, ChildEntries(ctx, ctx.hierarchy.children[n], 1))

ChildEntries(ctx, nodes, i) ==
    IF i > Len(nodes) THEN <<>>
    ELSE to_toc_entries(ctx, nodes[i]) \o ChildEntries(ctx, nodes, i + 1)

NoBook == [ok |-> FALSE, error |-> "none", docs |-> <<>>, toc |-> <<>>, fallback |-> FALSE]

\* The context the nested to_toc_entries closes over.
ExportCtx(lines, items) ==
    LET content_level == ContentLevel(items)
        content_items == SelectSeq(items, LAMBDA it : it.level = content_level)
    IN  [content_level |-> content_level,
         content_items |-> content_items,
         chapter_docs |-> ChapterDocs(content_items, lines),
         hierarchy |-> _build_hierarchy(items)]

\* build_epub, up to the hand-over to the packaging library: book.toc and the
\* documents of book.spine.  fallback records that the flat list was taken.
build_epub(lines, toc_items) ==
    IF lines = <<>>
    THEN [ok |-> FALSE, error |-> "empty text", docs |-> <<>>, toc |-> <<>>, fallback |-> FALSE]
    ELSE LET ctx == ExportCtx(lines, EffectiveItems(lines, toc_items))
             walked == ChildEntries(ctx, ctx.hierarchy.roots, 1)
         IN  [ok |-> TRUE, error |-> "none",
              docs |-> ctx.chapter_docs,
              toc |-> IF walked = <<>>
                      THEN [i \in 1..Len(ctx.chapter_docs) |-> DocEntry(ctx.chapter_docs[i])]
                      ELSE walked,
              fallback |-> walked = <<>>]

\* ------------------------------------------------------------------ state
VARIABLES
    lines,              \* AppController.lines
    toc_items,          \* AppController.toc_items
    rule_levels,        \* AppController.rule_levels
    current_file_path,  \* AppController.current_file_path
    unsaved_changes,    \* AppController.unsaved_changes
    inflight,           \* the files of the load workers that have not reported yet
    rule_row,           \* window.rule_level_list.currentRow()
    rule_name_edit,     \* window.rule_level_name_edit.text()
    rule_text_edit,     \* window.rule_text_edit, as its lines
    state,              \* window.state
    controls_enabled,   \* what _set_editing_controls_enabled last set
    msg,                \* the message box the last handler showed ("none": no box)
    book,               \* the EPUB the last handler wrote (NoBook: none)
    call,               \* the call of a core function under test, and its result
    hist                \* the operations of a round trip, in order

vars == <<lines, toc_items, rule_levels, current_file_path, unsaved_changes, inflight,
          rule_row, rule_name_edit, rule_text_edit, state, controls_enabled,
          msg, book>>

editor == <<rule_row, rule_name_edit, rule_text_edit>>

NoCall == [fn |-> "none"]

\* -------------------------------------------------------------- environment
\* The files the user can open, as decoded text split at "\n".
Files == {"a.txt", "b.txt", "e.txt"}

RawLines(file_path) ==
    CASE file_path = "a.txt" -> <<<<" ">>, <<"V">>, <<"C">>, <<"x">>, <<>>>>
      [] file_path = "b.txt" -> <<<<"x">>, <<"x">>, <<" ">>>>
      [] OTHER -> <<<<" ">>>>

RECURSIVE DropLeadingBlank(_)
DropLeadingBlank(ls) ==
    IF ls # <<>> /\ Strip(Head(ls)) = <<>> THEN DropLeadingBlank(Tail(ls)) ELSE ls

RECURSIVE DropTrailingBlank(_)
DropTrailingBlank(ls) ==
    IF ls # <<>> /\ Strip(ls[Len(ls)]) = <<>>
    THEN DropTrailingBlank(SubSeq(ls, 1, Len(ls) - 1)) ELSE ls

\* load_txt_lines: the lines without leading and trailing blank lines; <<>>
\* stands for the ValueError of an empty file.
load_txt_lines(file_path) == DropTrailingBlank(DropLeadingBlank(RawLines(file_path)))

\* What the user may type into the rule editor.
RuleTexts == {<<<<" ">>>>, <<<<"(">>>>}

\* What the user may type as the title of a new item (blank: take the default).
InsertTitles == {<<>>, <<"y">>}

\* What the user may leave in a tree node after editing it.
RenameTexts == {<<" ">>, <<"[", "L", "1", " ", "v", "]", " ", "x">>}

\* ------------------------------------------------------------ rule editor
\* _fill_rule_editor(index), as the two widgets' contents.
FillName(levels, index) ==
    IF index < 0 \/ index >= Len(levels) THEN <<>> ELSE levels[index + 1].name

FillText(levels, index) ==
    IF index < 0 \/ index >= Len(levels) THEN <<>> ELSE levels[index + 1].rules

RECURSIVE StrippedNonBlank(_)
StrippedNonBlank(ls) ==
    IF ls = <<>> THEN <<>>
    ELSE (IF Strip(Head(ls)) # <<>> THEN <<Strip(Head(ls))>> ELSE <<>>)
         \o StrippedNonBlank(Tail(ls))

\* A save that stores the editor's level before it validates it.
_try_save_storing_first ==
    LET index == rule_row
        name == normalize_title(rule_name_edit, <<"l", "v">> \o ToStr(index + 1))
        rules == StrippedNonBlank(rule_text_edit)
        stored == [rule_levels EXCEPT ![index + 1] = [name |-> name, rules |-> rules]]
    IN  IF index < 0 \/ index >= Len(rule_levels)
        THEN [ok |-> TRUE, saved |-> FALSE, msg |-> "none", levels |-> rule_levels]
        ELSE IF rules = <<>>
        THEN [ok |-> FALSE, saved |-> TRUE, msg |-> "rule_empty", levels |-> stored]
        ELSE IF ~CompilesAll(<<[name |-> name, rules |-> rules]>>)
        THEN [ok |-> FALSE, saved |-> TRUE, msg |-> "rule_error", levels |-> stored]
        ELSE [ok |-> TRUE, saved |-> TRUE, msg |-> "none", levels |-> stored]

\* _try_save_current_rule_level: [ok, saved, msg, levels]; saved tells that
\* rule_levels[index] was written.
_try_save_current_rule_level ==
    LET index == rule_row
        name == normalize_title(rule_name_edit, <<"l", "v">> \o ToStr(index + 1))
        rules == StrippedNonBlank(rule_text_edit)
    IN  IF index < 0 \/ index >= Len(rule_levels)
        THEN [ok |-> TRUE, saved |-> FALSE, msg |-> "none", levels |-> rule_levels]
        ELSE IF rules = <<>>
        THEN [ok |-> FALSE, saved |-> FALSE, msg |-> "rule_empty", levels |-> rule_levels]
        ELSE IF ~CompilesAll(<<[name |-> name, rules |-> rules]>>)
        THEN [ok |-> FALSE, saved |-> FALSE, msg |-> "rule_error", levels |-> rule_levels]
        ELSE [ok |-> TRUE, saved |-> TRUE, msg |-> "none",
              levels |-> [rule_levels EXCEPT ![index + 1] = [name |-> name, rules |-> rules]]]

\* The editor and unsaved_changes after _try_save_current_rule_level returned sv.
AfterSave(sv) ==
    IF sv.saved
    THEN /\ rule_levels' = sv.levels
         /\ rule_name_edit' = FillName(sv.levels, rule_row)
         /\ rule_text_edit' = FillText(sv.levels, rule_row)
         /\ UNCHANGED rule_row
    ELSE UNCHANGED <<rule_levels, rule_row, rule_name_edit, rule_text_edit>>

\* ------------------------------------------------------------------ loading
Editing == state = "EDITING" /\ controls_enabled

\* start_load: a worker thread is started for file_path; a worker started
\* before and still running is neither stopped nor waited for.
start_load(file_path) ==
    /\ current_file_path' = file_path
    /\ state' = "LOADING"
    /\ controls_enabled' = FALSE
    /\ inflight' = Append(inflight, file_path)
    /\ msg' = "none"
    /\ book' = NoBook
    /\ UNCHANGED <<lines, toc_items, rule_levels, unsaved_changes, editor>>

\* choose_txt_file: the button of the start page, with a file picked.
ChooseTxtFile(file_path) ==
    /\ state = "START"
    /\ start_load(file_path)

\* handle_dropped_file: a .txt file dropped on the window, in any state.
HandleDroppedFile(file_path) == start_load(file_path)

Remove(seq, k) == SubSeq(seq, 1, k - 1) \o SubSeq(seq, k + 1, Len(seq))

\* TxtLoadWorker.run raised: _on_load_failed.
LoadFailed(k) ==
    /\ k \in 1..Len(inflight)
    /\ load_txt_lines(inflight[k]) = <<>>
    /\ inflight' = Remove(inflight, k)
    /\ state' = "START"
    /\ msg' = "load_failed"
    /\ book' = NoBook
    /\ UNCHANGED <<lines, toc_items, rule_levels, current_file_path, unsaved_changes,
                   editor, controls_enabled>>

\* TxtLoadWorker.run returned the lines: _on_load_finished, with the
\* reparse_toc(set_unsaved=False) it makes.
LoadFinished(k) ==
    /\ k \in 1..Len(inflight)
    /\ load_txt_lines(inflight[k]) # <<>>
    /\ inflight' = Remove(inflight, k)
    /\ lines' = load_txt_lines(inflight[k])
    /\ LET sv == _try_save_current_rule_level
       IN  /\ AfterSave(sv)
           /\ msg' = sv.msg
           /\ unsaved_changes' = (sv.ok /\ sv.saved)
           /\ toc_items' = IF sv.ok THEN parse_toc_items(lines', sv.levels) ELSE toc_items
    /\ state' = "EDITING"
    /\ controls_enabled' = TRUE
    /\ book' = NoBook
    /\ UNCHANGED <<current_file_path>>

\* --------------------------------------------------------- TOC collection
\* A reparse that adds the parsed items to the collection it finds.
ReparseTocMerge ==
    /\ Editing
    /\ LET sv == _try_save_current_rule_level
       IN  /\ AfterSave(sv)
           /\ msg' = sv.msg
           /\ unsaved_changes' = IF sv.ok THEN TRUE ELSE unsaved_changes
           /\ toc_items' = IF sv.ok
                           THEN recompute_ranges(toc_items \o parse_toc_items(lines, sv.levels),
                                                 Len(lines))
                           ELSE toc_items
    /\ book' = NoBook
    /\ UNCHANGED <<lines, current_file_path, inflight, state, controls_enabled>>

\* reparse_toc(set_unsaved=True): the reparse button.
ReparseToc ==
    /\ Editing
    /\ LET sv == _try_save_current_rule_level
       IN  /\ AfterSave(sv)
           /\ msg' = sv.msg
           /\ unsaved_changes' = IF sv.ok THEN TRUE ELSE unsaved_changes
           /\ toc_items' = IF sv.ok THEN parse_toc_items(lines, sv.levels) ELSE toc_items
    /\ book' = NoBook
    /\ UNCHANGED <<lines, current_file_path, inflight, state, controls_enabled>>

\* The number of items of a level.
CountLevel(items, level_no) == Len(SelectSeq(items, LAMBDA i : i.level = level_no))

\* add_toc_item_from_cursor: block is the preview cursor's line, level_index
\* the level picked in the first dialog, title the text of the second;
\* ok1 and ok2 tell whether each dialog was accepted.
AddTocItemFromCursor(block, ok1, level_index, ok2, title) ==
    /\ Editing
    /\ lines # <<>>
    /\ Len(toc_items) < MaxToc
    /\ LET sv == _try_save_current_rule_level
           level_no == level_index + 1
           level_name == sv.levels[level_index + 1].name
           start_line == Max(0, Min(block, Len(lines) - 1))
           default_title == level_name \o ToStr(CountLevel(toc_items, level_no) + 1)
           added == Append(toc_items,
                           TocItem(normalize_title(title, default_title), start_line,
                                   Len(lines) - 1, level_no, level_name))
           done == sv.ok /\ ok1 /\ ok2
       IN  /\ level_index \in 0..(Len(sv.levels) - 1)
           /\ AfterSave(sv)
           /\ msg' = sv.msg
           /\ toc_items' = IF done THEN recompute_ranges(added, Len(lines)) ELSE toc_items
           /\ unsaved_changes' = IF done \/ sv.saved THEN TRUE ELSE unsaved_changes
    /\ book' = NoBook
    /\ UNCHANGED <<lines, current_file_path, inflight, state, controls_enabled>>

\* A delete without the check that one item stays.
DeleteSelectedTocItemUnguarded(idx) ==
    /\ Editing
    /\ IF idx < 0 \/ idx >= Len(toc_items)
       THEN /\ msg' = "select_item_first"
            /\ UNCHANGED <<toc_items, unsaved_changes>>
       ELSE /\ msg' = "none"
            /\ toc_items' = recompute_ranges(Remove(toc_items, idx + 1), Len(lines))
            /\ unsaved_changes' = TRUE
    /\ book' = NoBook
    /\ UNCHANGED <<lines, rule_levels, current_file_path, inflight, editor, state,
                   controls_enabled>>

\* delete_selected_toc_item: idx is _selected_flat_index().
DeleteSelectedTocItem(idx) ==
    /\ Editing
    /\ IF idx < 0 \/ idx >= Len(toc_items)
       THEN /\ msg' = "select_item_first"
            /\ UNCHANGED <<toc_items, unsaved_changes>>
       ELSE IF Len(toc_items) <= 1
       THEN /\ msg' = "keep_one_item"
            /\ UNCHANGED <<toc_items, unsaved_changes>>
       ELSE /\ msg' = "none"
            /\ toc_items' = recompute_ranges(Remove(toc_items, idx + 1), Len(lines))
            /\ unsaved_changes' = TRUE
    /\ book' = NoBook
    /\ UNCHANGED <<lines, rule_levels, current_file_path, inflight, editor, state,
                   controls_enabled>>

\* re.sub(r"^\[L\d+\s+[^\]]+\]\s*", "", text): the text without the display
\* prefix "[L<level> <level name>] " when it starts with one.
IsDigit(c) == \E d \in 1..10 : Digits[d] = c

StripDisplayPrefix(text) ==
    LET n == Len(text)
        \* the first position from 3 on that holds no digit
        p == CHOOSE q \in 3..(n + 1) :
                /\ \A k \in 3..(q - 1) : IsDigit(text[k])
                /\ (q = n + 1 \/ ~IsDigit(text[q]))
        closes == {q \in p..n : text[q] = "]"}
        q == IF closes = {} THEN 0 ELSE CHOOSE c \in closes : \A d \in closes : c <= d
    IN  IF /\ n >= 2 /\ text[1] = "[" /\ text[2] = "L"
           /\ p > 3 /\ p <= n /\ IsSpace(text[p])
           /\ q # 0 /\ q - p >= 2
        THEN LStrip(SubSeq(text, q + 1, n))
        ELSE text

\* A rename that stores the stripped text whatever it is.
OnTocTitleChangedNoFallback(flat_index, text) ==
    /\ Editing
    /\ IF flat_index < 0 \/ flat_index >= Len(toc_items)
       THEN UNCHANGED <<toc_items, unsaved_changes>>
       ELSE /\ toc_items' = [toc_items EXCEPT
                               ![flat_index + 1].title = Strip(StripDisplayPrefix(Strip(text)))]
            /\ unsaved_changes' = TRUE
    /\ msg' = "none"
    /\ book' = NoBook
    /\ UNCHANGED <<lines, rule_levels, current_file_path, inflight, editor, state,
                   controls_enabled>>

\* on_toc_title_changed: flat_index is the edited node's index, text what the
\* node now shows.
OnTocTitleChanged(flat_index, text) ==
    /\ Editing
    /\ IF flat_index < 0 \/ flat_index >= Len(toc_items)
       THEN UNCHANGED <<toc_items, unsaved_changes>>
       ELSE LET stripped == StripDisplayPrefix(Strip(text))
                fallback == toc_items[flat_index + 1].level_name \o ToStr(flat_index + 1)
            IN  /\ toc_items' = [toc_items EXCEPT
                                   ![flat_index + 1].title = normalize_title(stripped, fallback)]
                /\ unsaved_changes' = TRUE
    /\ msg' = "none"
    /\ book' = NoBook
    /\ UNCHANGED <<lines, rule_levels, current_file_path, inflight, editor, state,
                   controls_enabled>>

\* A swap that does not compare the two levels.
SwapSelectedTitleAnyLevel(idx, direction) ==
    /\ Editing
    /\ LET target == idx + direction
       IN  IF idx < 0 \/ target < 0 \/ target >= Len(toc_items)
           THEN /\ msg' = "none"
                /\ UNCHANGED <<toc_items, unsaved_changes>>
           ELSE /\ msg' = "none"
                /\ toc_items' = [toc_items EXCEPT
                                   ![idx + 1].title = toc_items[target + 1].title,
                                   ![target + 1].title = toc_items[idx + 1].title]
                /\ unsaved_changes' = TRUE
    /\ book' = NoBook
    /\ UNCHANGED <<lines, rule_levels, current_file_path, inflight, editor, state,
                   controls_enabled>>

\* swap_selected_title(direction)
SwapSelectedTitle(idx, direction) ==
    /\ Editing
    /\ LET target == idx + direction
       IN  IF idx < 0 \/ target < 0 \/ target >= Len(toc_items)
           THEN /\ msg' = "none"
                /\ UNCHANGED <<toc_items, unsaved_changes>>
           ELSE IF toc_items[idx + 1].level # toc_items[target + 1].level
           THEN /\ msg' = "same_level_only"
                /\ UNCHANGED <<toc_items, unsaved_changes>>
           ELSE /\ msg' = "none"
                /\ toc_items' = [toc_items EXCEPT
                                   ![idx + 1].title = toc_items[target + 1].title,
                                   ![target + 1].title = toc_items[idx + 1].title]
                /\ unsaved_changes' = TRUE
    /\ book' = NoBook
    /\ UNCHANGED <<lines, rule_levels, current_file_path, inflight, editor, state,
                   controls_enabled>>

\* generate_epub: accepted tells that both dialogs were accepted, written
\* that the packaging library wrote the file (an exception of build_epub is
\* caught and reported).
GenerateEpub(accepted, written) ==
    /\ Editing
    /\ IF lines = <<>>
       THEN /\ msg' = "no_text" /\ book' = NoBook /\ UNCHANGED unsaved_changes
       ELSE IF toc_items = <<>>
       THEN /\ msg' = "no_items" /\ book' = NoBook /\ UNCHANGED unsaved_changes
       ELSE IF ~accepted
       THEN /\ msg' = "none" /\ book' = NoBook /\ UNCHANGED unsaved_changes
       ELSE IF ~written \/ ~build_epub(lines, toc_items).ok
       THEN /\ msg' = "generate_failed" /\ book' = NoBook /\ UNCHANGED unsaved_changes
       ELSE /\ msg' = "generated"
            /\ book' = build_epub(lines, toc_items)
            /\ unsaved_changes' = FALSE
    /\ UNCHANGED <<lines, toc_items, rule_levels, current_file_path, inflight, editor,
                   state, controls_enabled>>

\* back_to_home, from its button or from on_escape_pressed: confirmed is the
\* answer to the question asked when there are unsaved changes.
BackToHome(confirmed) ==
    /\ state # "START"
    /\ state = "LOADING" \/ state = "EDITING"
    /\ IF unsaved_changes /\ ~confirmed
       THEN UNCHANGED <<state, controls_enabled>>
       ELSE state' = "START" /\ controls_enabled' = FALSE
    /\ msg' = IF unsaved_changes THEN "confirm_home" ELSE "none"
    /\ book' = NoBook
    /\ UNCHANGED <<lines, toc_items, rule_levels, current_file_path, unsaved_changes,
                   inflight, editor>>

\* The user types into the rule editor.
EditRuleText(text) ==
    /\ Editing
    /\ rule_text_edit' = text
    /\ msg' = "none"
    /\ book' = NoBook
    /\ UNCHANGED <<lines, toc_items, rule_levels, current_file_path, unsaved_changes,
                   inflight, rule_row, rule_name_edit, state, controls_enabled>>

\* on_rule_level_selected: the user picks a row of the level list.
OnRuleLevelSelected(index) ==
    /\ Editing
    /\ index \in 0..(Len(rule_levels) - 1)
    /\ index # rule_row
    /\ rule_row' = index
    /\ rule_name_edit' = FillName(rule_levels, index)
    /\ rule_text_edit' = FillText(rule_levels, index)
    /\ msg' = "none"
    /\ book' = NoBook
    /\ UNCHANGED <<lines, toc_items, rule_levels, current_file_path, unsaved_changes,
                   inflight, state, controls_enabled>>

\* ------------------------------------------------- the level list's buttons
\* The level add_rule_level appends as number next_no.
NewRuleLevel(next_no) ==
    [name |-> <<"l", "v">> \o ToStr(next_no),
     rules |-> <<<<"^", "C", "*", " ", "=>", " ", "\\0">>>>]

\* add_rule_level: the save is made with show_message=True.
AddRuleLevel ==
    /\ Editing
    /\ Len(rule_levels) <= MaxLevel
    /\ LET sv == _try_save_current_rule_level
           next_no == Len(sv.levels) + 1
           levels == Append(sv.levels, NewRuleLevel(next_no))
       IN  IF ~sv.ok
           THEN /\ msg' = sv.msg
                /\ UNCHANGED <<rule_levels, editor, unsaved_changes>>
           ELSE /\ msg' = IF sv.saved THEN "rule_saved" ELSE "none"
                /\ rule_levels' = levels
                /\ rule_row' = next_no - 1
                /\ rule_name_edit' = FillName(levels, next_no - 1)
                /\ rule_text_edit' = FillText(levels, next_no - 1)
                /\ unsaved_changes' = TRUE
    /\ book' = NoBook
    /\ UNCHANGED <<lines, toc_items, current_file_path, inflight, state, controls_enabled>>

\* save_current_rule_level
SaveCurrentRuleLevel ==
    /\ Editing
    /\ LET sv == _try_save_current_rule_level
       IN  /\ AfterSave(sv)
           /\ msg' = sv.msg
           /\ unsaved_changes' = IF sv.saved THEN TRUE ELSE unsaved_changes
    /\ book' = NoBook
    /\ UNCHANGED <<lines, toc_items, current_file_path, inflight, state, controls_enabled>>

\* test_selected_line: block is the preview cursor's line; msg carries what
\* the result label is set to.
TestSelectedLine(block) ==
    /\ Editing
    /\ IF lines = <<>>
       THEN /\ msg' = "test_no_text"
            /\ UNCHANGED <<rule_levels, editor, unsaved_changes>>
       ELSE LET sv == _try_save_current_rule_level
                compiled == compile_rule_levels(sv.levels)
                line_no == Max(0, Min(block, Len(lines) - 1))
                checked == check_line_for_toc(lines[line_no + 1], compiled, DefaultMaxLen)
            IN  /\ AfterSave(sv)
                /\ unsaved_changes' = IF sv.saved THEN TRUE ELSE unsaved_changes
                /\ msg' = IF ~sv.ok THEN sv.msg
                          ELSE IF compiled = <<>> THEN "test_rules_empty"
                          ELSE IF ~checked.accepted \/ ~checked.matched.found
                          THEN "test_not_included"
                          ELSE "test_hit"
    /\ book' = NoBook
    /\ UNCHANGED <<lines, toc_items, current_file_path, inflight, state, controls_enabled>>

\* ------------------------------------------------------------ the session
Init ==
    /\ lines = <<>>
    /\ toc_items = <<>>
    /\ rule_levels = default_rule_levels
    /\ current_file_path = ""
    /\ unsaved_changes = FALSE
    /\ inflight = <<>>
    /\ rule_row = 0
    /\ rule_name_edit = FillName(default_rule_levels, 0)
    /\ rule_text_edit = FillText(default_rule_levels, 0)
    /\ state = "START"
    /\ controls_enabled = FALSE
    /\ msg = "none"
    /\ book = NoBook
    /\ call = NoCall
    /\ hist = <<>>

\* One handler of the editing session.
Session ==
    \/ \E f \in Files : Len(inflight) < MaxInflight /\ ChooseTxtFile(f)
    \/ \E f \in Files : Len(inflight) < MaxInflight /\ HandleDroppedFile(f)
    \/ \E k \in 1..MaxInflight : LoadFailed(k)
    \/ \E k \in 1..MaxInflight : LoadFinished(k)
    \/ ReparseToc
    \/ \E block \in 0..Len(lines), ok1, ok2 \in BOOLEAN, level_index \in 0..(MaxLevel - 1),
          title \in InsertTitles :
          AddTocItemFromCursor(block, ok1, level_index, ok2, title)
    \/ \E idx \in -1..(Len(toc_items) - 1) : DeleteSelectedTocItem(idx)
    \/ \E idx \in -1..(Len(toc_items) - 1), text \in RenameTexts : OnTocTitleChanged(idx, text)
    \/ \E idx \in -1..(Len(toc_items) - 1), direction \in {-1, 1} : SwapSelectedTitle(idx, direction)
    \/ \E accepted, written \in BOOLEAN : GenerateEpub(accepted, written)
    \/ \E confirmed \in BOOLEAN : BackToHome(confirmed)
    \/ \E text \in RuleTexts : EditRuleText(text)
    \/ \E index \in 0..(MaxLevel - 1) : OnRuleLevelSelected(index)

Next == Session /\ UNCHANGED <<call, hist>>

Spec == Init /\ [][Next]_vars

\* ------------------------------------------------------------ opening files
\* start_load binds self.load_thread to a new QThread while the thread of an
\* earlier load may still run: the object it released is destroyed while its
\* thread runs, and Qt ends the process. ABORTED stands for the process that
\* ended; nothing happens after it.
ThreadDestroyedWhileRunning ==
    /\ Len(inflight) >= 2
    /\ state' = "ABORTED"
    /\ inflight' = <<>>
    /\ controls_enabled' = FALSE
    /\ msg' = "none"
    /\ book' = NoBook
    /\ UNCHANGED <<lines, toc_items, rule_levels, current_file_path, unsaved_changes, editor>>

\* The session in which files are chosen and dropped and load workers report,
\* several of them in flight together; a superseded worker either goes on and
\* reports, in any order with the others, or takes the process down.
NextLoads ==
    /\ state # "ABORTED"
    /\ \/ \E f \in Files : Len(inflight) < MaxLoads /\ ChooseTxtFile(f)
       \/ \E f \in Files : Len(inflight) < MaxLoads /\ HandleDroppedFile(f)
       \/ \E k \in 1..MaxLoads : LoadFailed(k)
       \/ \E k \in 1..MaxLoads : LoadFinished(k)
       \/ \E confirmed \in BOOLEAN : BackToHome(confirmed)
       \/ ThreadDestroyedWhileRunning
    /\ UNCHANGED <<call, hist>>

SpecLoads == Init /\ [][NextLoads]_vars

\* ------------------------------------------------------------ a round trip
\* The session right after a file was opened from the start page, followed by
\* at most MaxHist collection operations and exports, each recorded in hist
\* with the collection it left and the EPUB it wrote.
InitRoundTrip ==
    /\ \E f \in Files :
          /\ load_txt_lines(f) # <<>>
          /\ current_file_path = f
          /\ lines = load_txt_lines(f)
          /\ toc_items = parse_toc_items(load_txt_lines(f), default_rule_levels)
    /\ rule_levels = default_rule_levels
    /\ unsaved_changes = TRUE
    /\ inflight = <<>>
    /\ rule_row = 0
    /\ rule_name_edit = FillName(default_rule_levels, 0)
    /\ rule_text_edit = FillText(default_rule_levels, 0)
    /\ state = "EDITING"
    /\ controls_enabled = TRUE
    /\ msg = "none"
    /\ book = NoBook
    /\ call = NoCall
    /\ hist = <<>>

Record(op) == hist' = Append(hist, [op |-> op, toc |-> toc_items', book |-> book'])

NextRoundTrip ==
    /\ Len(hist) < MaxHist
    /\ UNCHANGED call
    /\ \/ \E accepted, written \in BOOLEAN : GenerateEpub(accepted, written) /\ Record("export")
       \/ \E idx \in -1..(Len(toc_items) - 1) : DeleteSelectedTocItem(idx) /\ Record("delete")
       \/ \E block \in 0..Len(lines), level_index \in 0..(MaxLevel - 1), title \in InsertTitles :
             AddTocItemFromCursor(block, TRUE, level_index, TRUE, title) /\ Record("insert")
       \/ \E idx \in -1..(Len(toc_items) - 1), text \in RenameTexts :
             OnTocTitleChanged(idx, text) /\ Record("rename")
       \/ ReparseToc /\ Record("reparse")

SpecRoundTrip == InitRoundTrip /\ [][NextRoundTrip]_vars

\* ---------------------------------------------------------- the rule editor
\* What the user may type into the rule editor: RuleTexts and a rule that
\* compiles.
EditorTexts == RuleTexts \cup {<<<<"x">>>>}

\* The session right after a file was opened, with the handlers that call
\* _try_save_current_rule_level, and the editor itself.
NextRuleEditor ==
    /\ UNCHANGED <<call, hist>>
    /\ \/ \E text \in EditorTexts : EditRuleText(text)
       \/ \E index \in 0..MaxLevel : OnRuleLevelSelected(index)
       \/ AddRuleLevel
       \/ SaveCurrentRuleLevel
       \/ \E block \in 0..Len(lines) : TestSelectedLine(block)
       \/ ReparseToc
       \/ \E block \in 0..Len(lines), ok1, ok2 \in BOOLEAN, level_index \in 0..MaxLevel,
             title \in InsertTitles :
             AddTocItemFromCursor(block, ok1, level_index, ok2, title)

SpecRuleEditor == InitRoundTrip /\ [][NextRuleEditor]_vars

\* ---------------------------------------------------- the core, function by function
\* The session part of the state while a core function is called on its own.
Idle ==
    /\ lines = <<>>
    /\ toc_items = <<>>
    /\ rule_levels = default_rule_levels
    /\ current_file_path = ""
    /\ unsaved_changes = FALSE
    /\ inflight = <<>>
    /\ rule_row = 0
    /\ rule_name_edit = FillName(default_rule_levels, 0)
    /\ rule_text_edit = FillText(default_rule_levels, 0)
    /\ state = "START"
    /\ controls_enabled = FALSE
    /\ msg = "none"
    /\ book = NoBook
    /\ hist = <<>>

session == <<lines, toc_items, rule_levels, current_file_path, unsaved_changes, inflight,
             rule_row, rule_name_edit, rule_text_edit, state, controls_enabled, msg, book>>

\* All sequences over S of length 0..n.
SeqsUpTo(S, n) == UNION {[1..k -> S] : k \in 0..n}

LevelName(level) == <<"l">> \o ToStr(level)

\* The item list of a sequence of <<start_line, level>> pairs; the i-th item
\* is titled i.
MkItems(f) ==
    [i \in 1..Len(f) |-> TocItem(ToStr(i), f[i][1], f[i][1], f[i][2], LevelName(f[i][2]))]

\* The item lists of section 8 of the design: the forest shape [1,2,2,1,2],
\* the range truncation over 20 lines, and a list whose levels have a gap.
ExampleForest == MkItems(<<<<0, 1>>, <<1, 2>>, <<2, 2>>, <<3, 1>>, <<4, 2>>>>)
ExampleRange == MkItems(<<<<0, 1>>, <<5, 2>>>>)
ExampleGap == MkItems(<<<<0, 1>>, <<1, 4>>, <<2, 2>>, <<3, 4>>>>)

ItemLists ==
    {MkItems(f) : f \in SeqsUpTo((0..MaxLine) \X (1..MaxLevel), MaxItems)}
        \cup {ExampleForest, ExampleRange, ExampleGap}

\* A corpus of n lines of text.
CorpusOf(n) == [i \in 1..n |-> <<"x">>]

\* ---- recompute_ranges
InitRanges ==
    /\ Idle
    /\ \E items \in ItemLists, total_lines \in (1..(MaxLine + 1)) \cup {20} :
          call = [fn |-> "recompute_ranges", done |-> FALSE, items |-> items,
                  total_lines |-> total_lines, ret |-> <<>>]

CallRecomputeRanges ==
    /\ call.fn = "recompute_ranges"
    /\ ~call.done
    /\ call' = [call EXCEPT !.done = TRUE,
                            !.ret = recompute_ranges(call.items, call.total_lines)]
    /\ UNCHANGED <<session, hist>>

NextRanges == CallRecomputeRanges

SpecRanges == InitRanges /\ [][NextRanges]_vars

\* ---- _build_hierarchy and build_epub
NoForest == [order |-> <<>>, roots |-> <<>>, children |-> <<>>]

\* The caller's list after _build_hierarchy(items) returned: the loop walks
\* a sorted copy and assigns to no item.  The variant sorts the list itself.
ItemsSortedInPlace(items) == SortItems(items)

ItemsAfterBuildHierarchy(items) == items

\* The caller's list after build_epub returned or raised: the default item is
\* bound to the local name only.
ItemsAfterBuildEpub(ls, items) == items

\* items is the caller's list as the calls made so far left it, given the
\* list as it was passed first.
InitForest ==
    /\ Idle
    /\ \E items \in ItemLists, n \in 0..(MaxLine + 1) :
          call = [fn |-> "export", items |-> items, given |-> items, lines |-> CorpusOf(n),
                  built |-> FALSE, forest |-> NoForest,
                  exported |-> FALSE, book |-> NoBook]

CallBuildHierarchy ==
    /\ call.fn = "export"
    /\ ~call.built
    /\ call' = [call EXCEPT !.built = TRUE, !.forest = _build_hierarchy(call.items),
                            !.items = ItemsAfterBuildHierarchy(call.items)]
    /\ UNCHANGED <<session, hist>>

CallBuildEpub ==
    /\ call.fn = "export"
    /\ ~call.exported
    /\ call' = [call EXCEPT !.exported = TRUE, !.book = build_epub(call.lines, call.items),
                            !.items = ItemsAfterBuildEpub(call.lines, call.items)]
    /\ UNCHANGED <<session, hist>>

NextForest == CallBuildHierarchy \/ CallBuildEpub

SpecForest == InitForest /\ [][NextForest]_vars

\* ---- detect_heading_level and check_line_for_toc
LineChars == {"V", "C", "x", " "}

DetectLines == SeqsUpTo(LineChars, MaxLineLen)

\* The levels a rule set is made of: an anchored volume rule, an unanchored
\* chapter rule, a level of blank rule lines only (dropped by
\* compile_rule_levels), two levels of two rules, and an unanchored chapter
\* rule that renders its group.
LevelChoices ==
    {[name |-> <<"v">>, rules |-> <<<<"^", "V", "*">>>>],
     [name |-> <<"c">>, rules |-> <<<<"C">>>>],
     [name |-> <<"b">>, rules |-> <<<<" ">>>>],
     [name |-> <<" ">>, rules |-> <<<<"x">>, <<"V", "=>", "y", "\\0">>>>],
     [name |-> <<"c">>, rules |-> <<<<"^", "C", " ", "=>", " ">>, <<" ">>, <<"V">>>>],
     [name |-> <<"g">>, rules |-> <<<<"C", "*", " ", "=>", " ", "\\1">>>>]}

RuleSets == {f \in SeqsUpTo(LevelChoices, MaxLevel) : f # <<>>}

InitDetect ==
    /\ Idle
    /\ \E line \in DetectLines, levels \in RuleSets, max_len \in {ShortMaxLen, DefaultMaxLen} :
          call = [fn |-> "classify", line |-> line, levels |-> levels, max_len |-> max_len,
                  detected |-> FALSE, matched |-> NoMatch,
                  checked |-> FALSE,
                  result |-> [matched |-> NoMatch, accepted |-> FALSE, reason |-> ""]]

CallDetectHeadingLevel ==
    /\ call.fn = "classify"
    /\ ~call.detected
    /\ call' = [call EXCEPT !.detected = TRUE,
                            !.matched = detect_heading_level(call.line,
                                                             compile_rule_levels(call.levels))]
    /\ UNCHANGED <<session, hist>>

CallCheckLineForToc ==
    /\ call.fn = "classify"
    /\ ~call.checked
    /\ call' = [call EXCEPT !.checked = TRUE,
                            !.result = check_line_for_toc(call.line,
                                                          compile_rule_levels(call.levels),
                                                          call.max_len)]
    /\ UNCHANGED <<session, hist>>

NextDetect == CallDetectHeadingLevel \/ CallCheckLineForToc

SpecDetect == InitDetect /\ [][NextDetect]_vars

\* ---- compile_rule_levels and parse_toc_items
ParseLines == {<<"V">>, <<"C">>, <<"x">>, <<" ", "x", "C">>}

\* The corpora: no blank line first or last, as load_txt_lines returns them,
\* and the empty corpus.
Corpora == SeqsUpTo(ParseLines, MaxLine)

\* RuleSets and level definitions with a pattern that does not compile.
ParseRuleSets ==
    RuleSets \cup {<<[name |-> <<"v">>, rules |-> <<<<"(">>>>]>>,
                   <<[name |-> <<"v">>, rules |-> <<<<"^", "V", "*">>>>],
                     [name |-> <<"c">>, rules |-> <<<<"C">>, <<"(">>>>]>>}

InitParse ==
    /\ Idle
    /\ \E ls \in Corpora, levels \in ParseRuleSets :
          call = [fn |-> "parse", lines |-> ls, levels |-> levels,
                  compiled |-> FALSE, ok |-> FALSE, compiled_levels |-> <<>>,
                  parsed |-> FALSE, raised |-> FALSE, ret |-> <<>>,
                  exported |-> FALSE, book |-> NoBook]

\* compile_rule_levels(levels): ok = FALSE stands for an exception raised.
CallCompileRuleLevels ==
    /\ call.fn = "parse"
    /\ ~call.compiled
    /\ call' = [call EXCEPT !.compiled = TRUE,
                            !.ok = CompilesAll(call.levels),
                            !.compiled_levels = IF CompilesAll(call.levels)
                                                THEN compile_rule_levels(call.levels)
                                                ELSE <<>>]
    /\ UNCHANGED <<session, hist>>

\* Whether parse_toc_items raises: only out of compile_rule_levels, which it
\* calls after the test for an empty corpus.
ParseRaises(ls, levels) ==
    /\ ls # <<>>
    /\ ~CompilesAll(IF levels # <<>> THEN levels ELSE default_rule_levels)

CallParseTocItems ==
    /\ call.fn = "parse"
    /\ ~call.parsed
    /\ call' = [call EXCEPT !.parsed = TRUE,
                            !.raised = ParseRaises(call.lines, call.levels),
                            !.ret = IF ParseRaises(call.lines, call.levels) THEN <<>>
                                    ELSE parse_toc_items(call.lines, call.levels)]
    /\ UNCHANGED <<session, hist>>

\* build_epub on the corpus and the items parse_toc_items returned for it.
CallBuildEpubOnParsed ==
    /\ call.fn = "parse"
    /\ call.parsed /\ ~call.raised
    /\ ~call.exported
    /\ call' = [call EXCEPT !.exported = TRUE, !.book = build_epub(call.lines, call.ret)]
    /\ UNCHANGED <<session, hist>>

NextParse == CallCompileRuleLevels \/ CallParseTocItems \/ CallBuildEpubOnParsed

SpecParse == InitParse /\ [][NextParse]_vars

\* ================================================================ claims
SetMin(S) == CHOOSE m \in S : \A o \in S : m <= o
SetMax(S) == CHOOSE m \in S : \A o \in S : m >= o
Range(f) == {f[i] : i \in 1..Len(f)}

\* ---- C1
C1_Compiled == compile_rule_levels(call.levels)
C1_Text == Strip(call.line)

\* The (level position, rule position) pairs whose pattern matches the line.
C1_Pairs ==
    UNION {{<<i, j>> : j \in {r \in 1..Len(C1_Compiled[i].rules) :
                                  Search(C1_Compiled[i].rules[r].regex, C1_Text).found}} :
           i \in 1..Len(C1_Compiled)}

C1_Before(p, q) == p[1] < q[1] \/ (p[1] = q[1] /\ p[2] <= q[2])

C1_First == CHOOSE p \in C1_Pairs : \A q \in C1_Pairs : C1_Before(p, q)

C1_IsFirst(m) ==
    IF C1_Pairs = {} THEN ~m.found
    ELSE /\ m.found
         /\ m.level_no = C1_Compiled[C1_First[1]].level_no
         /\ m.level_name = C1_Compiled[C1_First[1]].level_name
         /\ m.rule = C1_First[2]
         /\ \A p, q \in C1_Pairs :
               p[1] < q[1] => m.level_no # C1_Compiled[q[1]].level_no

\* C1: on a line that is not blank and not too long, detect_heading_level and
\* check_line_for_toc return the match of the first (level, rule) pair, levels
\* in configured order and rules in configured order inside a level, whose
\* pattern matches the trimmed line; when rules of two levels match, the
\* result carries the earlier level, never the later one.
C1_FirstMatchWins ==
    (call.fn = "classify" /\ C1_Text # <<>>) =>
        /\ call.detected => C1_IsFirst(call.matched)
        /\ (call.checked /\ Len(C1_Text) <= call.max_len) =>
              /\ C1_IsFirst(call.result.matched)
              /\ call.result.accepted = (C1_Pairs # {})

C1_Witness ==
    /\ call.fn = "classify"
    /\ call.checked /\ call.detected
    /\ call.result.accepted
    /\ \E p, q \in C1_Pairs : p[1] < q[1]
    /\ call.result.matched.level_no = C1_Compiled[C1_First[1]].level_no

\* ---- C2, C7
\* The returned item that came from the i-th input item (titles are distinct).
RetOf(i) == CHOOSE r \in Range(call.ret) : r.title = call.items[i].title

GreaterStarts(i) ==
    {call.items[k].start_line : k \in {n \in 1..Len(call.items) :
                                         call.items[n].start_line > call.items[i].start_line}}

RangesDone == call.fn = "recompute_ranges" /\ call.done

SameItemsBack ==
    /\ Len(call.ret) = Len(call.items)
    /\ \A i \in 1..Len(call.items) :
          /\ \E r \in Range(call.ret) : r.title = call.items[i].title
          /\ RetOf(i).start_line = call.items[i].start_line
          /\ RetOf(i).level = call.items[i].level

\* C2 as stated: end_line is (the smallest greater start_line of any item) - 1,
\* and total_lines - 1 when no item starts later.
C2_AsStated ==
    RangesDone =>
        /\ SameItemsBack
        /\ \A i \in 1..Len(call.items) :
              RetOf(i).end_line = IF GreaterStarts(i) # {}
                                  THEN SetMin(GreaterStarts(i)) - 1
                                  ELSE call.total_lines - 1

\* C2, amended: end_line is (the smallest start_line among all items of any
\* level that is greater than the item's own) - 1, and when no item starts
\* later it is total_lines - 1, or the item's own start_line if that is
\* greater; the sweep is global (items {0, level 1} and {5, level 2} over 20
\* lines give the level-1 item end_line 4).
C2_GlobalSweep ==
    RangesDone =>
        /\ SameItemsBack
        /\ \A i \in 1..Len(call.items) :
              RetOf(i).end_line = IF GreaterStarts(i) # {}
                                  THEN SetMin(GreaterStarts(i)) - 1
                                  ELSE Max(call.items[i].start_line, call.total_lines - 1)
        /\ (call.items = ExampleRange /\ call.total_lines = 20) =>
              /\ RetOf(1).end_line = 4
              /\ RetOf(2).end_line = 19

C2_Witness ==
    /\ RangesDone
    /\ call.items = ExampleRange /\ call.total_lines = 20
    /\ call.ret[1].level = 1 /\ call.ret[1].end_line = 4

GreatestStart == SetMax({call.ret[i].start_line : i \in 1..Len(call.ret)})

RetSorted ==
    \A i, j \in 1..Len(call.ret) : i < j => call.ret[i].start_line <= call.ret[j].start_line

\* C7 as stated: sorted by start_line, start_line <= end_line, and the item
\* with the greatest start_line ends at total_lines - 1.
C7_AsStated ==
    (RangesDone /\ call.items # <<>>) =>
        /\ RetSorted
        /\ \A i \in 1..Len(call.ret) :
              /\ call.ret[i].start_line <= call.ret[i].end_line
              /\ call.ret[i].start_line = GreatestStart =>
                    call.ret[i].end_line = call.total_lines - 1

\* C7, amended: the output of recompute_ranges is sorted by start_line, every
\* item has start_line <= end_line, and the item with the greatest start_line
\* ends at total_lines - 1 when it starts before total_lines and at its own
\* start_line otherwise.
C7_SortedAndClamped ==
    (RangesDone /\ call.items # <<>>) =>
        /\ call.ret # <<>>
        /\ RetSorted
        /\ \A i \in 1..Len(call.ret) :
              /\ call.ret[i].start_line <= call.ret[i].end_line
              /\ call.ret[i].start_line = GreatestStart =>
                    call.ret[i].end_line =
                        IF call.ret[i].start_line < call.total_lines
                        THEN call.total_lines - 1 ELSE call.ret[i].start_line

C7_Witness ==
    /\ RangesDone
    /\ Len(call.items) >= 2
    /\ call.items[1].start_line > call.items[2].start_line
    /\ call.ret[Len(call.ret)].start_line < call.total_lines - 1
    /\ call.ret[Len(call.ret)].end_line = call.total_lines - 1

\* ---- C3
\* The nearest item before position k of the sorted list with a smaller
\* level; 0 when there is none.
NearestSmaller(order, k) ==
    LET smaller == {j \in 1..(k - 1) : order[j].level < order[k].level}
    IN  IF smaller = {} THEN 0 ELSE SetMax(smaller)

\* The node whose child list holds k; 0 when none does.
ParentIn(forest, k) ==
    LET holders == {j \in 1..Len(forest.order) : k \in Range(forest.children[j])}
    IN  IF holders = {} THEN 0 ELSE SetMin(holders)

Increasing(f) == \A i, j \in 1..Len(f) : i < j => f[i] < f[j]

SortedByKey(order) ==
    \A i, j \in 1..Len(order) : i < j =>
        \/ order[i].start_line < order[j].start_line
        \/ order[i].start_line = order[j].start_line /\ order[i].level <= order[j].level

RECURSIVE SumLen(_, _)
SumLen(children, k) == IF k = 0 THEN 0 ELSE Len(children[k]) + SumLen(children, k - 1)

ForestBuilt == call.fn = "export" /\ call.built

\* C3: in the forest of _build_hierarchy every node's parent is the nearest
\* preceding item, in (start_line, level) order, with a strictly smaller
\* level, and the node is a root when there is none; levels may have gaps and
\* equal-level neighbours are siblings (levels [1,2,2,1,2] give two roots with
\* 2 and 1 children).
C3_NearestSmallerParent ==
    ForestBuilt =>
        LET f == call.forest IN
        /\ Len(f.order) = Len(call.items)
        /\ Range(f.order) = Range(call.items)
        /\ SortedByKey(f.order)
        /\ Len(f.roots) + SumLen(f.children, Len(f.order)) = Len(f.order)
        /\ Increasing(f.roots)
        /\ \A k \in 1..Len(f.order) :
              /\ Increasing(f.children[k])
              /\ ParentIn(f, k) = NearestSmaller(f.order, k)
              /\ (k \in Range(f.roots)) = (NearestSmaller(f.order, k) = 0)
        /\ call.items = ExampleForest =>
              /\ Len(f.roots) = 2
              /\ Len(f.children[f.roots[1]]) = 2
              /\ Len(f.children[f.roots[2]]) = 1

C3_Witness ==
    /\ ForestBuilt
    /\ call.items = ExampleForest
    /\ call.forest.roots = <<1, 4>>
    /\ call.forest.children[1] = <<2, 3>>
    /\ call.forest.children[4] = <<5>>

\* ---- C4, C8
C4_Order == SortItems(EffectiveItems(call.lines, call.items))
C4_ContentLevel == SetMax({C4_Order[i].level : i \in 1..Len(C4_Order)})

RECURSIVE IsAncestorOrSelf(_, _, _)
IsAncestorOrSelf(order, a, k) ==
    IF k = 0 THEN FALSE
    ELSE IF a = k THEN TRUE
    ELSE IsAncestorOrSelf(order, a, NearestSmaller(order, k))

RECURSIVE Depth(_, _)
Depth(order, k) ==
    IF NearestSmaller(order, k) = 0 THEN 0 ELSE 1 + Depth(order, NearestSmaller(order, k))

\* Node k is a content item or has one below it.
HasContent(k) ==
    \E d \in 1..Len(C4_Order) :
        C4_Order[d].level = C4_ContentLevel /\ IsAncestorOrSelf(C4_Order, k, d)

\* The export tree in pre-order, each entry with its depth.
RECURSIVE Flatten(_, _)
Flatten(entries, depth) ==
    IF entries = <<>> THEN <<>>
    ELSE <<[kind |-> Head(entries).kind, title |-> Head(entries).title, depth |-> depth]>>
         \o Flatten(Head(entries).children, depth + 1)
         \o Flatten(Tail(entries), depth)

\* The nodes that hold content, in sort order (the forest's pre-order): a
\* content item as a document, any other as a section under its own title.
RECURSIVE ExpectedFrom(_)
ExpectedFrom(k) ==
    IF k > Len(C4_Order) THEN <<>>
    ELSE (IF HasContent(k)
          THEN <<[kind |-> IF C4_Order[k].level = C4_ContentLevel THEN "doc" ELSE "section",
                  title |-> C4_Order[k].title,
                  depth |-> Depth(C4_Order, k)]>>
          ELSE <<>>)
         \o ExpectedFrom(k + 1)

RECURSIVE NoEmptySection(_)
NoEmptySection(entries) ==
    \A i \in 1..Len(entries) :
        /\ entries[i].kind = "section" => entries[i].children # <<>>
        /\ NoEmptySection(entries[i].children)

RECURSIVE CountKind(_, _)
CountKind(entries, kind) ==
    IF entries = <<>> THEN 0
    ELSE (IF Head(entries).kind = kind THEN 1 ELSE 0)
         + CountKind(Head(entries).children, kind)
         + CountKind(Tail(entries), kind)

Exported == call.fn = "export" /\ call.exported /\ call.book.ok

\* C4: with content_level the deepest level present, a node above it adds
\* nothing to the export tree when no descendant is a content document, and
\* otherwise exactly one section under its own title that wraps its children's
\* entries in forest order; no section of the export tree is empty.
C4_SectionsWrapContent ==
    Exported =>
        /\ Flatten(call.book.toc, 0) = ExpectedFrom(1)
        /\ NoEmptySection(call.book.toc)

C4_Witness ==
    /\ Exported
    /\ \E k \in 1..Len(C4_Order) : C4_Order[k].level < C4_ContentLevel /\ ~HasContent(k)
    /\ CountKind(call.book.toc, "section") >= 1

\* C8: for a non-empty corpus and any item list, the empty one included (one
\* full-span level-1 item is made up for it), build_epub produces at least one
\* content document and a non-empty top-level toc, which is the flat list of
\* the content documents when the forest walk yields nothing.
C8_NeverEmpty ==
    (call.fn = "export" /\ call.exported /\ call.lines # <<>>) =>
        /\ call.book.ok
        /\ Len(call.book.docs) >= 1
        /\ call.book.toc # <<>>
        /\ call.items = <<>> =>
              /\ Len(call.book.docs) = 1
              /\ call.book.docs[1].title = BodyTitle
              /\ Len(call.book.docs[1].content.body) = Len(call.lines)
              /\ call.book.toc = <<DocEntry(call.book.docs[1])>>
        /\ call.book.fallback =>
              call.book.toc = [i \in 1..Len(call.book.docs) |-> DocEntry(call.book.docs[i])]

C8_Witness ==
    /\ call.fn = "export" /\ call.exported
    /\ call.lines # <<>>
    /\ call.items = <<>>
    /\ Len(call.book.docs) = 1
    /\ Len(call.book.toc) = 1

\* ---- C5
\* C5 as stated: every item of the collection lies inside the corpus held.
C5_RangesInsideCorpus ==
    \A i \in 1..Len(toc_items) :
        /\ 0 <= toc_items[i].start_line
        /\ toc_items[i].start_line <= toc_items[i].end_line
        /\ toc_items[i].end_line < Len(lines)

\* ---- C6
\* One of the five operations on the collection.
MutationStep ==
    \/ ReparseToc
    \/ \E block \in 0..Len(lines), ok1, ok2 \in BOOLEAN, level_index \in 0..(MaxLevel - 1),
          title \in InsertTitles :
          AddTocItemFromCursor(block, ok1, level_index, ok2, title)
    \/ \E idx \in -1..(Len(toc_items) - 1) : DeleteSelectedTocItem(idx)
    \/ \E idx \in -1..(Len(toc_items) - 1), text \in RenameTexts : OnTocTitleChanged(idx, text)
    \/ \E idx \in -1..(Len(toc_items) - 1), direction \in {-1, 1} : SwapSelectedTitle(idx, direction)

\* C6 as stated: when reparse, insert, delete, rename or swap_adjacent
\* returns, the collection is a fixed point of recompute_ranges for the
\* corpus held.
C6_RangeCompleteAfterMutation ==
    [][MutationStep => toc_items' = recompute_ranges(toc_items', Len(lines'))]_vars

\* ---- C9
RootAndLeaf(toc) ==
    /\ Len(toc) = 2
    /\ SortItems(toc)[1].level = 1
    /\ SortItems(toc)[2].level = 2

OneSectionOneDoc(b, toc) ==
    /\ Len(b.docs) = 1
    /\ Len(b.toc) = 1
    /\ b.toc[1].kind = "section"
    /\ b.toc[1].title = SortItems(toc)[1].title
    /\ Len(b.toc[1].children) = 1
    /\ b.toc[1].children[1].kind = "doc"
    /\ b.toc[1].children[1].title = SortItems(toc)[2].title
    /\ b.toc[1].children[1].children = <<>>

\* hist[i] exported a root and its leaf, hist[i + 1] deleted the leaf and
\* hist[i + 2] exported again.
RoundTripAt(i) ==
    /\ i + 2 <= Len(hist)
    /\ hist[i].op = "export" /\ hist[i].book.ok /\ RootAndLeaf(hist[i].toc)
    /\ hist[i + 1].op = "delete"
    /\ Len(hist[i + 1].toc) = 1 /\ hist[i + 1].toc[1].level = 1
    /\ hist[i + 2].op = "export" /\ hist[i + 2].book.ok

FirstExportAt(i) ==
    /\ i <= Len(hist)
    /\ hist[i].op = "export" /\ hist[i].book.ok /\ RootAndLeaf(hist[i].toc)

\* C9 as stated: the second export has no section and falls back to an empty
\* flat list of content documents.
C9_AsStated ==
    \A i \in 1..MaxHist :
        /\ FirstExportAt(i) => OneSectionOneDoc(hist[i].book, hist[i].toc)
        /\ RoundTripAt(i) =>
              /\ CountKind(hist[i + 2].book.toc, "section") = 0
              /\ hist[i + 2].book.docs = <<>>
              /\ hist[i + 2].book.toc = <<>>

\* C9, amended: exporting a level-1 root with one level-2 leaf below it gives
\* exactly one section wrapping exactly one content document; after the leaf
\* is deleted, exporting again does not fail and gives no section and exactly
\* one content document, the remaining level-1 item, which is now at the
\* content level and is the only toc entry (the flat-list fallback is not
\* taken).
C9_RoundTrip ==
    \A i \in 1..MaxHist :
        /\ FirstExportAt(i) => OneSectionOneDoc(hist[i].book, hist[i].toc)
        /\ RoundTripAt(i) =>
              /\ CountKind(hist[i + 2].book.toc, "section") = 0
              /\ Len(hist[i + 2].book.docs) = 1
              /\ hist[i + 2].book.docs[1].title = hist[i + 1].toc[1].title
              /\ hist[i + 2].book.toc = <<DocEntry(hist[i + 2].book.docs[1])>>
              /\ ~hist[i + 2].book.fallback

C9_Witness ==
    /\ RoundTripAt(1)
    /\ CountKind(hist[1].book.toc, "section") = 1
    /\ CountKind(hist[3].book.toc, "section") = 0
    /\ Len(hist[3].book.docs) = 1

\* ---- C10
\* The items without their derived end_line.
Authored(items) ==
    [i \in 1..Len(items) |-> [items[i] EXCEPT !.end_line = 0]]

DeletePost(idx) ==
    IF idx < 0 \/ idx >= Len(toc_items) THEN toc_items' = toc_items
    ELSE IF Len(toc_items) = 1 THEN toc_items' = toc_items /\ msg' = "keep_one_item"
    ELSE /\ Len(toc_items') = Len(toc_items) - 1
         /\ Authored(toc_items') = Authored(Remove(toc_items, idx + 1))
         /\ toc_items' = recompute_ranges(toc_items', Len(lines))

\* C10: delete on a one-item collection is rejected and changes nothing, a
\* delete with an out-of-range index changes nothing, any other delete removes
\* exactly the item at the index and re-runs the range computer on the rest;
\* so a non-empty collection never becomes empty.
C10_DeleteKeepsOne ==
    [][/\ \A idx \in -1..(Len(toc_items) - 1) : DeleteSelectedTocItem(idx) => DeletePost(idx)
       /\ toc_items # <<>> => toc_items' # <<>>]_vars

C10_Witness ==
    /\ msg = "keep_one_item"
    /\ Len(toc_items) = 1

\* ---- C11
SwapPost(idx, direction) ==
    LET target == idx + direction
        inside == idx >= 0 /\ idx < Len(toc_items) /\ target >= 0 /\ target < Len(toc_items)
    IN  IF inside /\ toc_items[idx + 1].level = toc_items[target + 1].level
        THEN /\ Len(toc_items') = Len(toc_items)
             /\ \A i \in 1..Len(toc_items) :
                   toc_items'[i] =
                       IF i = idx + 1
                       THEN [toc_items[i] EXCEPT !.title = toc_items[target + 1].title]
                       ELSE IF i = target + 1
                       THEN [toc_items[i] EXCEPT !.title = toc_items[idx + 1].title]
                       ELSE toc_items[i]
        ELSE toc_items' = toc_items

\* C11: swap_adjacent exchanges only the titles of the item at the index and
\* of its neighbour in the flat list when both have the same level, every
\* item keeping its start_line, end_line, level, level_name and position;
\* when the neighbour is out of bounds or of another level the collection is
\* unchanged.
C11_SwapTitlesOnly ==
    [][\A idx \in -1..(Len(toc_items) - 1), direction \in {-1, 1} :
          SwapSelectedTitle(idx, direction) => SwapPost(idx, direction)]_vars

\* The placeholder title of the parser, which the parser gives to an item at
\* line 0 only, now on a later item it was swapped to.
C11_Witness ==
    /\ Len(toc_items) = 2
    /\ toc_items[1].level = toc_items[2].level
    /\ toc_items[2].title = BodyTitle
    /\ toc_items[2].start_line > 0
    /\ toc_items[1].title # BodyTitle

\* ---- C12
\* No line of the corpus of the call matches a rule of its level definitions.
NoLineMatches ==
    \A i \in 1..Len(call.lines) :
        ~detect_heading_level(call.lines[i], compile_rule_levels(call.levels)).found

\* C12 as stated: parsing a non-empty corpus no line of which matches a rule
\* returns exactly one item, from line 0 to the last line, with the
\* placeholder title, at the last level of the level definitions.
C12_SingleItemAtLastLevel ==
    (call.fn = "parse" /\ call.parsed /\ call.lines # <<>> /\ NoLineMatches) =>
        /\ Len(call.ret) = 1
        /\ call.ret[1].start_line = 0
        /\ call.ret[1].end_line = Len(call.lines) - 1
        /\ call.ret[1].title = BodyTitle
        /\ call.ret[1].level = Len(call.levels)

\* ---- C13
\* The classification of line i (0-based) of the corpus held under the level
\* definitions held.
Classified(i) ==
    check_line_for_toc(lines[i + 1], compile_rule_levels(rule_levels), DefaultMaxLen)

AcceptedLines == {i \in 0..(Len(lines) - 1) : Classified(i).accepted}

\* toc holds exactly one item per accepted line, made from the line's match.
OneItemPerAcceptedLine(toc) ==
    /\ Len(toc) = Cardinality(AcceptedLines)
    /\ \A k \in 1..Len(toc) : toc[k].start_line \in AcceptedLines
    /\ \A i \in AcceptedLines :
          \E k \in 1..Len(toc) :
              /\ toc[k].start_line = i
              /\ toc[k].level = Classified(i).matched.level_no
              /\ toc[k].level_name = Classified(i).matched.level_name
              /\ toc[k].title = Classified(i).matched.rendered_title

\* C13: when a line of the corpus is accepted, a reparse leaves exactly one
\* item per accepted line, with the line's index as start_line and the level,
\* level name and title of the line's match, and no item for a rejected line:
\* nothing of the collection before it, inserted or renamed items included,
\* is kept.
C13_ReparseReplaces ==
    \A i \in 1..Len(hist) :
        (hist[i].op = "reparse" /\ AcceptedLines # {}) => OneItemPerAcceptedLine(hist[i].toc)

\* A reparse right after an insert or a rename that had left another
\* collection.
C13_Witness ==
    \E i \in 1..(Len(hist) - 1) :
        /\ hist[i].op \in {"insert", "rename"}
        /\ hist[i + 1].op = "reparse"
        /\ AcceptedLines # {}
        /\ ~OneItemPerAcceptedLine(hist[i].toc)
        /\ hist[i + 1].toc # hist[i].toc

\* ---- C14
\* Some rule of the call's level definitions matches the trimmed line.
SomeRuleMatches == C1_Pairs # {}

\* C14: check_line_for_toc rejects a line that is empty after trimming as
\* blank; else a line whose trimmed length is greater than max_len as too
\* long, whether or not a rule matches it; else a line no rule matches as
\* matched by no rule.  A line of exactly max_len characters is not too long,
\* and the result is accepted exactly when it carries a match.
C14_RejectionOrder ==
    (call.fn = "classify" /\ call.checked) =>
        LET text == Strip(call.line)
            r == call.result
        IN  /\ text = <<>> => (~r.accepted /\ r.reason = "blank")
            /\ (text # <<>> /\ Len(text) > call.max_len) =>
                  (~r.accepted /\ r.reason = "too long")
            /\ (text # <<>> /\ Len(text) <= call.max_len /\ ~SomeRuleMatches) =>
                  (~r.accepted /\ r.reason = "no rule matched")
            /\ (text # <<>> /\ Len(text) <= call.max_len /\ SomeRuleMatches) =>
                  (r.accepted /\ r.reason # "too long")
            /\ r.accepted = r.matched.found

\* A line of exactly max_len characters that was accepted.
C14_Witness ==
    /\ call.fn = "classify"
    /\ call.checked
    /\ Len(Strip(call.line)) = call.max_len
    /\ call.result.accepted

HasEmptyLevel(levels) ==
    \E i \in 1..Len(levels) : StrippedNonBlank(levels[i].rules) = <<>>

\* C16 as stated: compiling level definitions one level of which has no
\* non-blank rule line raises, and returns no compiled level list.
C16_EmptyLevelRejected ==
    (call.fn = "parse" /\ call.compiled /\ HasEmptyLevel(call.levels)) => ~call.ok

\* ---- C17
\* C17 as stated: on a corpus of zero lines parse_toc_items and build_epub
\* both end in an error.
C17_EmptyCorpusIsError ==
    (call.fn = "parse" /\ call.lines = <<>>) =>
        /\ call.parsed => call.raised
        /\ call.exported => (~call.book.ok /\ call.book.error = "empty text")

\* ---- C18
\* Only the title of item idx (0-based) may differ between the collection
\* before and after, and it is not blank after.
OnlyTitleOf(idx) ==
    /\ Len(toc_items') = Len(toc_items)
    /\ \A i \in 1..Len(toc_items) :
          toc_items'[i] = IF i = idx + 1
                          THEN [toc_items[i] EXCEPT !.title = toc_items'[i].title]
                          ELSE toc_items[i]
    /\ Strip(toc_items'[idx + 1].title) # <<>>

\* C18 as stated: the title becomes the trimmed input, or a placeholder when
\* the trimmed input is blank.
C18_AsStated ==
    [][\A idx \in -1..(Len(toc_items) - 1), text \in RenameTexts :
          OnTocTitleChanged(idx, text) =>
              IF idx < 0 \/ idx >= Len(toc_items) THEN toc_items' = toc_items
              ELSE /\ OnlyTitleOf(idx)
                   /\ Strip(text) # <<>> => toc_items'[idx + 1].title = Strip(text)]_vars

\* C18, amended: rename sets the title of the item at the index to the
\* trimmed input without the display prefix "[L<digits> <name>] " it may
\* start with, trimmed, or, when nothing but blanks is left, to the
\* placeholder made of the item's level name and its 1-based position; the
\* title is never blank afterwards, the item's start_line, end_line, level
\* and level_name, every other item and the order are unchanged, and an
\* out-of-range index changes nothing.
C18_RenameTitleOnly ==
    [][\A idx \in -1..(Len(toc_items) - 1), text \in RenameTexts :
          OnTocTitleChanged(idx, text) =>
              IF idx < 0 \/ idx >= Len(toc_items) THEN toc_items' = toc_items
              ELSE LET typed == Strip(StripDisplayPrefix(Strip(text)))
                   IN  /\ OnlyTitleOf(idx)
                       /\ typed # <<>> => toc_items'[idx + 1].title = typed
                       /\ typed = <<>> =>
                             toc_items'[idx + 1].title =
                                 toc_items[idx + 1].level_name \o ToStr(idx + 1)]_vars

\* An item that carries the title only a rename gives.
C18_Witness ==
    \E i \in 1..Len(toc_items) :
        /\ toc_items[i].title = <<"x">>
        /\ unsaved_changes

\* ---- C19
\* The rule that matched, its match and the stripped expansion of its
\* template.
C19_Rule == C1_Compiled[C1_First[1]].rules[C1_First[2]]
C19_Match == Search(C19_Rule.regex, C1_Text)
C19_Expansion ==
    Strip(Expand(C19_Rule.replacement, Matched(C1_Text, C19_Match),
                 Group1(C19_Rule.regex, C1_Text, C19_Match)))

C19_Matched == call.fn = "classify" /\ call.detected /\ call.matched.found

\* C19 as stated: the rendered title is the trimmed expansion of the
\* template, and the matched part of the line when the expansion is blank.
C19_AsStated ==
    C19_Matched =>
        call.matched.rendered_title =
            IF C19_Expansion # <<>> THEN C19_Expansion ELSE Matched(C1_Text, C19_Match)

\* C19, amended: on a match the rendered title is the trimmed expansion of
\* the rule's title template; when that expansion is blank, it is the whole
\* trimmed line, also for an unanchored pattern that matched only a part of
\* it; a rule without a template renders the matched substring (trimmed, and
\* again the whole trimmed line when that is blank).
C19_RenderedTitle ==
    C19_Matched =>
        /\ call.matched.rendered_title =
              IF C19_Expansion # <<>> THEN C19_Expansion ELSE C1_Text
        /\ ArrowPos(Strip(C19_Rule.raw_rule)) = 0 =>
              call.matched.rendered_title =
                  IF Strip(Matched(C1_Text, C19_Match)) # <<>>
                  THEN Strip(Matched(C1_Text, C19_Match)) ELSE C1_Text

\* An unanchored pattern matched a part of the line and its template expanded
\* to nothing.
C19_Witness ==
    /\ C19_Matched
    /\ C19_Expansion = <<>>
    /\ Matched(C1_Text, C19_Match) # C1_Text
    /\ call.matched.rendered_title = C1_Text

\* ---- C20
\* The editor holds a level that cannot be saved: no non-blank rule line, or
\* a pattern that does not compile.
SaveFails ==
    /\ rule_row >= 0 /\ rule_row < Len(rule_levels)
    /\ \/ StrippedNonBlank(rule_text_edit) = <<>>
       \/ ~CompilesAll(<<[name |-> <<"n">>, rules |-> StrippedNonBlank(rule_text_edit)]>>)

\* A handler that saves the editor's level first.
SavingStep ==
    \/ ReparseToc
    \/ \E block \in 0..Len(lines), ok1, ok2 \in BOOLEAN, level_index \in 0..MaxLevel,
          title \in InsertTitles :
          AddTocItemFromCursor(block, ok1, level_index, ok2, title)
    \/ AddRuleLevel
    \/ \E block \in 0..Len(lines) : TestSelectedLine(block)
    \/ SaveCurrentRuleLevel

\* C20: when the level in the editor cannot be saved, reparse, insert, add
\* level, test line and save report the error and change nothing: the stored
\* level definitions, the collection, the corpus, the editor and the
\* unsaved-changes flag are as before.
C20_FailedSaveChangesNothing ==
    [][(SaveFails /\ SavingStep) =>
          /\ msg' \in {"rule_empty", "rule_error"}
          /\ UNCHANGED <<rule_levels, toc_items, lines, editor, unsaved_changes,
                         current_file_path, state, controls_enabled>>]_vars

\* A save of a pattern that does not compile was refused, after a level had
\* been added and a changed rule saved.
C20_Witness ==
    /\ msg = "rule_error"
    /\ Len(rule_levels) > Len(default_rule_levels)
    /\ \E i \in 1..Len(rule_levels) : rule_levels[i].rules = <<<<"x">>>>
    /\ rule_text_edit = <<<<"(">>>>

\* ---- C21
\* C21: in every state of the editing session the nesting shown by the TOC
\* tree equals the nesting computed by _build_hierarchy: the hierarchy visits
\* the items in the stored order, and every flat index has the same parent in
\* both, or is a root in both.
C21_TreeNestingIsExportNesting ==
    LET forest == _build_hierarchy(toc_items)
        tree == _refresh_toc_tree(toc_items)
    IN  /\ forest.order = toc_items
        /\ \A k \in 1..Len(toc_items) : tree[k] = ParentIn(forest, k)

\* A nested pair: the second item hangs under the first in both.
C21_Witness ==
    /\ Len(toc_items) = 2
    /\ _refresh_toc_tree(toc_items) = <<0, 1>>
    /\ ParentIn(_build_hierarchy(toc_items), 2) = 1

\* ---- C22
\* C22: in every state of the editing session the live collection is stored
\* in the order of (start_line ascending, level ascending), so flat index k
\* of the tree is position k of that sort order.
C22_StoredSorted ==
    /\ \A i \in 1..(Len(toc_items) - 1) :
           \/ toc_items[i].start_line < toc_items[i + 1].start_line
           \/ /\ toc_items[i].start_line = toc_items[i + 1].start_line
              /\ toc_items[i].level <= toc_items[i + 1].level
    /\ \A k \in 1..Len(toc_items) : SortItems(toc_items)[k] = toc_items[k]

\* An item inserted by hand stands before an item of a later line.
C22_Witness ==
    /\ msg = "none"
    /\ Len(toc_items) = 2
    /\ toc_items[1].title = <<"y">>
    /\ toc_items[1].start_line < toc_items[2].start_line

\* ---- C23
\* The document numbers the export tree references, in pre-order.
RECURSIVE DocRefs(_)
DocRefs(entries) ==
    IF entries = <<>> THEN <<>>
    ELSE (IF Head(entries).kind = "doc" THEN <<Head(entries).idx>> ELSE <<>>)
         \o DocRefs(Head(entries).children)
         \o DocRefs(Tail(entries))

\* C23: an export of the session's collection gives every content-level item
\* its own content document: the navigation tree references every document of
\* the flat list exactly once, and holds as many documents as the collection
\* has content-level items, also when two of them share start_line and title.
C23_EachItemItsOwnDocument ==
    book.ok =>
        LET refs == DocRefs(book.toc)
        IN  /\ \A d \in 1..Len(book.docs) :
                   Cardinality({p \in 1..Len(refs) : refs[p] = d}) = 1
            /\ Len(refs) = CountLevel(toc_items, ContentLevel(toc_items))

\* ---- C24
\* C24: in every state of the editing session the line ranges
\* [start_line, end_line] of the content-level items are pairwise disjoint,
\* so no corpus line is exported in more than one content document.
C24_ContentRangesDisjoint ==
    toc_items # <<>> =>
        LET content_level == ContentLevel(toc_items)
        IN  \A i, j \in 1..Len(toc_items) :
                (/\ i < j
                 /\ toc_items[i].level = content_level
                 /\ toc_items[j].level = content_level)
                => \/ toc_items[i].end_line < toc_items[j].start_line
                   \/ toc_items[j].end_line < toc_items[i].start_line

\* ---- C25
\* C25: under every interleaving of file loads, a second start_load before
\* an earlier worker has reported included, once every worker has reported
\* the session holds the corpus of the file requested last: the lines and the
\* TOC are those of current_file_path when its load succeeds, and the window
\* is in EDITING with the controls enabled only if that load succeeded.
C25_HoldsLastRequestedFile ==
    (inflight = <<>> /\ current_file_path # "" /\ state # "ABORTED") =>
        LET wanted == load_txt_lines(current_file_path)
        IN  IF wanted # <<>>
            THEN /\ lines = wanted
                 /\ toc_items = parse_toc_items(wanted, rule_levels)
            ELSE ~(state = "EDITING" /\ controls_enabled)

====
